---- MODULE Spec2Model ----
(***************************************************************************)
(* A model of cherrypy/client.go: the Salt NetAPI rest_cherrypy client.    *)
(* The client's fields, the request builder newRequest and the request     *)
(* executor do, with the transport, the response body stream and the       *)
(* caller's decode target as the environment they act on.                  *)
(***************************************************************************)
EXTENDS Integers, Sequences, FiniteSets, TLC

VARIABLES
    Address,     \* Client.Address
    Token,       \* Client.Token
    eauth,       \* Client.eauth
    pc,          \* where the current call stands
    req,         \* the *http.Request newRequest returned (NoReq for nil)
    buildToken,  \* the value Client.Token had when newRequest ran
    resp,        \* the *http.Response the transport handed to do (NoResp for none)
    openBodies,  \* number of response bodies handed out and not yet closed
    bodyRead,    \* bytes of the response body consumed so far
    bodyEnded,   \* the reader of the body has seen its end (io.EOF or a read error)
    v,           \* the decode target passed to do, in its current state
    vBefore,     \* the decode target as it was when do was called
    ret,         \* what the last operation returned: [resp, err]
    arose,       \* origins of the errors the library calls of this call reported
    netIO        \* the transport has been contacted during the current call

vars == <<Address, Token, eauth, pc, req, buildToken, resp, openBodies,
          bodyRead, bodyEnded, v, vBefore, ret, arose, netIO>>

clientFields == <<Address, Token, eauth>>

(***************************************************************************)
(* Bounds of the model.                                                    *)
(***************************************************************************)
MaxBodyLen == 2

(***************************************************************************)
(* Helpers on sequences of bytes.                                          *)
(***************************************************************************)
Min(a, b) == IF a < b THEN a ELSE b

Prefix(s, n) == SubSeq(s, 1, Min(n, Len(s)))

SeqsUpTo(S, n) == UNION {[1..k -> S] : k \in 0..n}

(***************************************************************************)
(* Inputs.                                                                 *)
(***************************************************************************)
Addresses == {"http://host:8000", "%zz"}
MalformedAddresses == {"%zz"}
Tokens == {"", "abc123"}
Methods == {"GET", "BAD METHOD"}
Endpoints == {"minions/id1"}
Credentials == [Username |-> "admin", Password |-> "password", Backend |-> "pam"]

NilBody == [kind |-> "nil"]
ChanBody == [kind |-> "chan"]
StringBody(cs) == [kind |-> "string", chars |-> cs]
Bodies == {NilBody, ChanBody, StringBody(<<"a", "<">>)}

\* bytes of a response body: a digit, JSON white space, a byte no JSON value starts with
Bytes == {"1", " ", "x"}
ResponseBodies == SeqsUpTo(Bytes, MaxBodyLen)

NoFail == -1
StatusLines == {[StatusCode |-> 199, Status |-> "199 Early"],
                [StatusCode |-> 200, Status |-> "200 OK"],
                [StatusCode |-> 299, Status |-> "299 Custom"],
                [StatusCode |-> 300, Status |-> "300 Multiple Choices"],
                [StatusCode |-> 500, Status |-> "500 Internal Server Error"]}

\* a response: its status line, the bytes the server sent, and the offset at
\* which reading the body fails (NoFail: the body ends with io.EOF)
Responses == {r \in [StatusCode : {s.StatusCode : s \in StatusLines},
                     Status : {s.Status : s \in StatusLines},
                     Body : ResponseBodies,
                     failAt : {NoFail} \cup (0..MaxBodyLen)] :
                 /\ [StatusCode |-> r.StatusCode, Status |-> r.Status] \in StatusLines
                 /\ r.failAt <= Len(r.Body)}

NilTarget == [kind |-> "nil"]
TypedTargets == {[kind |-> "typed", val |-> n] : n \in {5}}
WriterTargets == {[kind |-> "writer", sink |-> s, mode |-> m, cap |-> c] :
                     s \in {<<"x">>}, m \in {"ok", "fail", "panic"}, c \in {0, 1}}
Targets == {NilTarget} \cup TypedTargets \cup
           {w \in WriterTargets : w.mode = "fail" \/ w.cap = 0}

NoReq == [kind |-> "nil"]
NoResp == [kind |-> "nil"]
NoErr == [kind |-> "nil"]
NoRet == [resp |-> NoResp, err |-> NoErr]

(***************************************************************************)
(* Errors. Each library call that can fail reports one of these.           *)
(***************************************************************************)
UnsupportedTypeErr == [kind |-> "json.UnsupportedTypeError"]
InvalidMethodErr == [kind |-> "net/http: invalid method"]
URLParseErr == [kind |-> "url.Error"]
TransportErr == [kind |-> "transport error"]
ReadErr == [kind |-> "read error"]
WriteErr == [kind |-> "write error"]
EOFErr == [kind |-> "io.EOF"]
SyntaxErr == [kind |-> "json.SyntaxError"]
RequestError(code, status, body) ==
    [kind |-> "RequestError", StatusCode |-> code, Status |-> status, Body |-> body]

\* an error a library call reported, with the call that reported it
Arisen(at, err) == IF err = NoErr THEN {} ELSE {[at |-> at, err |-> err]}

(***************************************************************************)
(* newRequest, lines 77-104.                                               *)
(***************************************************************************)
\* fmt.Sprintf("%s/%s", c.Address, endpoint)
URL(address, endpoint) == address \o "/" \o endpoint

\* json.Encoder's rendering of one character of a string
EscapeChar(c, escapeHTML) ==
    IF escapeHTML /\ c = "<" THEN <<"\\", "u", "0", "0", "3", "c">>
    ELSE IF escapeHTML /\ c = ">" THEN <<"\\", "u", "0", "0", "3", "e">>
    ELSE IF escapeHTML /\ c = "&" THEN <<"\\", "u", "0", "0", "2", "6">>
    ELSE <<c>>

RECURSIVE EscapeChars(_, _)
EscapeChars(cs, escapeHTML) ==
    IF cs = <<>> THEN <<>>
    ELSE EscapeChar(Head(cs), escapeHTML) \o EscapeChars(Tail(cs), escapeHTML)

\* enc.SetEscapeHTML(escapeHTML); enc.Encode(body): the bytes written to buf
Encode(body, escapeHTML) ==
    IF body.kind = "chan"
    THEN [err |-> UnsupportedTypeErr, payload |-> <<>>]
    ELSE [err |-> NoErr,
          payload |-> <<"\"">> \o EscapeChars(body.chars, escapeHTML) \o <<"\"", "\n">>]

\* http.NewRequestWithContext(ctx, method, url, buf)
NewRequestWithContext(method, url, buf) ==
    IF method \notin {"", "GET", "POST"}
    THEN [req |-> NoReq, err |-> InvalidMethodErr]
    ELSE IF url \in {URL(a, e) : a \in MalformedAddresses, e \in Endpoints}
    THEN [req |-> NoReq, err |-> URLParseErr]
    ELSE [req |-> [kind |-> "request", Method |-> method, URL |-> url,
                   Body |-> buf, Header |-> <<>>],
          err |-> NoErr]

\* req.Header.Set(key, value)
HeaderSet(header, key, value) ==
    [k \in DOMAIN header \cup {key} |-> IF k = key THEN value ELSE header[k]]

AuthHeaderAlways(header, token) == HeaderSet(header, "X-Auth-Token", token)

\* lines 99-101: if c.Token != "" { req.Header.Set("X-Auth-Token", c.Token) }
AuthHeader(header, token) ==
    IF token # "" THEN HeaderSet(header, "X-Auth-Token", token) ELSE header

\* lines 97-101
SetHeaders(r, token) ==
    [r EXCEPT !.Header =
        AuthHeader(HeaderSet(HeaderSet(<<>>, "Accept", "application/json"),
                             "Content-Type", "application/json"),
                   token)]

EncodeFailureIgnored(enc) == FALSE

\* lines 86-88: if err != nil { return nil, err }
EncodeFailed(enc) == enc.err # NoErr

\* the whole of newRequest: what it returns and the errors its calls reported
newRequestResult(address, token, method, endpoint, body) ==
    LET url == URL(address, endpoint)
        enc == IF body = NilBody THEN [err |-> NoErr, payload |-> <<>>]
               ELSE Encode(body, FALSE)
        built == NewRequestWithContext(method, url, enc.payload)
    IN  IF EncodeFailed(enc)
        THEN [req |-> NoReq, err |-> enc.err, arose |-> Arisen("Encode", enc.err)]
        ELSE IF built.err # NoErr
        THEN [req |-> NoReq, err |-> built.err,
              arose |-> Arisen("Encode", enc.err) \cup Arisen("NewRequestWithContext", built.err)]
        ELSE [req |-> SetHeaders(built.req, token), err |-> NoErr,
              arose |-> Arisen("Encode", enc.err)]

(***************************************************************************)
(* The response body stream and the library calls that read it.            *)
(***************************************************************************)
ReadFails(r) == r.failAt # NoFail

\* the bytes the body stream hands out before it ends
Delivered(r) == IF ReadFails(r) THEN Prefix(r.Body, r.failAt) ELSE r.Body

\* how the body stream ends: io.EOF, or the read error
StreamEnd(r) == IF ReadFails(r) THEN ReadErr ELSE EOFErr

\* ioutil.ReadAll(resp.Body): the bytes read, and the error (nil at io.EOF)
ReadAll(r) ==
    [data |-> Delivered(r),
     err |-> IF ReadFails(r) THEN ReadErr ELSE NoErr,
     read |-> Len(Delivered(r)),
     ended |-> TRUE]

\* io.Copy(w, resp.Body): the writer afterwards, the error io.Copy returns,
\* and whether w.Write panicked. A writer of mode "fail" takes w.cap bytes and
\* then reports an error; one of mode "panic" panics in its first Write.
Copy(w, r) ==
    LET data == Delivered(r)
    IN  IF data # <<>> /\ w.mode = "panic"
        THEN [v |-> w, err |-> NoErr, panicked |-> TRUE,
              read |-> Len(data), ended |-> FALSE]
        ELSE IF w.mode = "fail" /\ Len(data) > w.cap
        THEN [v |-> [w EXCEPT !.sink = @ \o Prefix(data, w.cap)], err |-> WriteErr,
              panicked |-> FALSE, read |-> Len(data), ended |-> FALSE]
        ELSE [v |-> [w EXCEPT !.sink = @ \o data],
              err |-> IF ReadFails(r) THEN ReadErr ELSE NoErr,
              panicked |-> FALSE, read |-> Len(data), ended |-> TRUE]

RECURSIVE SkipSpace(_)
SkipSpace(data) ==
    IF data # <<>> /\ Head(data) = " " THEN SkipSpace(Tail(data)) ELSE data

RECURSIVE Digits(_)
\* the length of the run of digits data starts with
Digits(data) ==
    IF data # <<>> /\ Head(data) = "1" THEN 1 + Digits(Tail(data)) ELSE 0

RECURSIVE Ones(_)
\* the number whose decimal digits are n ones
Ones(n) == IF n = 0 THEN 0 ELSE 10 * Ones(n - 1) + 1

\* json.NewDecoder(resp.Body).Decode(v) for a numeric target: the decoder scans
\* what the stream delivers for one JSON value. White space before the value is
\* skipped; nothing but white space up to io.EOF is io.EOF; a byte that starts no
\* value is a syntax error; a number ends at the first byte that is no digit, or
\* at io.EOF; a read error before the value is complete is returned. Bytes after
\* the value are left unread.
Decode(t, r) ==
    LET data == Delivered(r)
        rest == SkipSpace(data)
        n == Digits(rest)
    IN  IF rest = <<>>
        THEN [v |-> t, err |-> StreamEnd(r), read |-> Len(data), ended |-> TRUE]
        ELSE IF Head(rest) = "x"
        THEN [v |-> t, err |-> SyntaxErr, read |-> Len(data), ended |-> FALSE]
        ELSE IF n < Len(rest)
        THEN [v |-> [t EXCEPT !.val = Ones(n)], err |-> NoErr,
              read |-> Len(data), ended |-> FALSE]
        ELSE IF ReadFails(r)
        THEN [v |-> t, err |-> ReadErr, read |-> Len(data), ended |-> TRUE]
        ELSE [v |-> [t EXCEPT !.val = Ones(n)], err |-> NoErr,
              read |-> Len(data), ended |-> TRUE]

(***************************************************************************)
(* do, lines 106-138.                                                      *)
(***************************************************************************)
IsFailureStatusUpperOnly(code) == code > 299

\* line 115: resp.StatusCode > 299 || resp.StatusCode < 200
IsFailureStatus(code) == code > 299 \/ code < 200

CloseOnSuccessOnly(open, failed) == IF failed THEN open ELSE open - 1

CloseOnFailureOnly(open, failed) == IF failed THEN open - 1 ELSE open

\* line 112: defer resp.Body.Close(), run on every way out of do
DeferredClose(open, failed) == open - 1

\* lines 119-123: return nil, &RequestError{...}
FailureReturn(r, body) ==
    [resp |-> NoResp, err |-> RequestError(r.StatusCode, r.Status, body)]

DecodeErrorReturnedAlsoEOF(err) == err # NoErr

\* line 131: err != nil && err != io.EOF
DecodeErrorReturned(err) == err # NoErr /\ err # EOFErr

(***************************************************************************)
(* NewClient: the client after construction.                               *)
(***************************************************************************)
Init ==
    /\ Address \in Addresses
    /\ Token = ""
    /\ eauth = Credentials
    /\ pc = "idle"
    /\ req = NoReq
    /\ buildToken = ""
    /\ resp = NoResp
    /\ openBodies = 0
    /\ bodyRead = 0
    /\ bodyEnded = FALSE
    /\ v = NilTarget
    /\ vBefore = NilTarget
    /\ ret = NoRet
    /\ arose = {}
    /\ netIO = FALSE

\* the caller builds a request: newRequest(ctx, method, endpoint, body)
newRequest(method, endpoint, body) ==
    /\ pc = "idle"
    /\ LET res == newRequestResult(Address, Token, method, endpoint, body)
       IN  /\ req' = res.req
           /\ ret' = [resp |-> NoResp, err |-> res.err]
           /\ arose' = res.arose
    /\ buildToken' = Token
    /\ pc' = "built"
    /\ UNCHANGED <<clientFields, resp, openBodies, bodyRead, bodyEnded, v, vBefore, netIO>>

\* lines 107-110: do(req, target) hands the request to the transport, which fails
doSendFails(target) ==
    /\ pc = "built"
    /\ req # NoReq
    /\ netIO' = TRUE
    /\ v' = target
    /\ vBefore' = target
    /\ ret' = [resp |-> NoResp, err |-> TransportErr]
    /\ arose' = arose \cup Arisen("client.Do", TransportErr)
    /\ pc' = "returned"
    /\ UNCHANGED <<clientFields, req, buildToken, resp, openBodies, bodyRead, bodyEnded>>

\* lines 107-112: do(req, target) hands the request to the transport, which
\* answers with response r, its body open
doSend(target, r) ==
    /\ pc = "built"
    /\ req # NoReq
    /\ netIO' = TRUE
    /\ v' = target
    /\ vBefore' = target
    /\ resp' = r
    /\ openBodies' = openBodies + 1
    /\ bodyRead' = 0
    /\ bodyEnded' = FALSE
    /\ pc' = "received"
    /\ UNCHANGED <<clientFields, req, buildToken, ret, arose>>

\* lines 115-124 without the client's fields: a status outside [200, 299]
doFailureSteps ==
    /\ pc = "received"
    /\ IsFailureStatus(resp.StatusCode)
    /\ LET all == ReadAll(resp)
       IN  /\ ret' = FailureReturn(resp, all.data)
           /\ arose' = arose \cup Arisen("ioutil.ReadAll", all.err)
           /\ bodyRead' = all.read
           /\ bodyEnded' = all.ended
    /\ openBodies' = DeferredClose(openBodies, TRUE)
    /\ pc' = "returned"
    /\ UNCHANGED <<req, buildToken, resp, v, vBefore, netIO>>

doFailureClearsToken ==
    /\ doFailureSteps
    /\ Token' = ""
    /\ UNCHANGED <<Address, eauth>>

\* lines 115-124: a status outside [200, 299]; no field of the client is assigned
doFailure ==
    /\ doFailureSteps
    /\ UNCHANGED clientFields

\* lines 126-128 and 137: a 2xx status and a target that is an io.Writer
doCopy ==
    /\ pc = "received"
    /\ ~IsFailureStatus(resp.StatusCode)
    /\ v.kind = "writer"
    /\ LET c == Copy(v, resp)
       IN  /\ v' = c.v
           /\ arose' = arose \cup Arisen("io.Copy", c.err)
           /\ bodyRead' = c.read
           /\ bodyEnded' = c.ended
           /\ openBodies' = DeferredClose(openBodies, c.panicked)
           /\ IF c.panicked
              THEN pc' = "panicked" /\ ret' = ret
              ELSE pc' = "returned" /\ ret' = [resp |-> resp, err |-> NoErr]
    /\ UNCHANGED <<clientFields, req, buildToken, resp, vBefore, netIO>>

\* lines 126, 129-134 and 137: a 2xx status and any other target
doDecode ==
    /\ pc = "received"
    /\ ~IsFailureStatus(resp.StatusCode)
    /\ v.kind = "typed"
    /\ LET d == Decode(v, resp)
       IN  /\ v' = d.v
           /\ arose' = arose \cup Arisen("Decode", d.err)
           /\ bodyRead' = d.read
           /\ bodyEnded' = d.ended
           /\ openBodies' = DeferredClose(openBodies, DecodeErrorReturned(d.err))
           /\ ret' = IF DecodeErrorReturned(d.err)
                     THEN [resp |-> NoResp, err |-> d.err]
                     ELSE [resp |-> resp, err |-> NoErr]
    /\ pc' = "returned"
    /\ UNCHANGED <<clientFields, req, buildToken, resp, vBefore, netIO>>

\* lines 126 and 137: a 2xx status and no target (v == nil)
doDiscard ==
    /\ pc = "received"
    /\ ~IsFailureStatus(resp.StatusCode)
    /\ v.kind = "nil"
    /\ ret' = [resp |-> resp, err |-> NoErr]
    /\ openBodies' = DeferredClose(openBodies, FALSE)
    /\ pc' = "returned"
    /\ UNCHANGED <<clientFields, req, buildToken, resp, bodyRead, bodyEnded,
                   v, vBefore, arose, netIO>>

\* the caller is done with the call: a failed build, or whatever do returned
Finish ==
    /\ \/ pc = "built" /\ req = NoReq
       \/ pc \in {"returned", "panicked"}
    /\ pc' = "idle"
    /\ req' = NoReq
    /\ resp' = NoResp
    /\ bodyRead' = 0
    /\ bodyEnded' = FALSE
    /\ v' = NilTarget
    /\ vBefore' = NilTarget
    /\ ret' = NoRet
    /\ arose' = {}
    /\ netIO' = FALSE
    /\ buildToken' = ""
    /\ UNCHANGED <<clientFields, openBodies>>

\* an assignment to the exported field Token by a caller (login, logout)
SetToken(t) ==
    /\ t # Token
    /\ Token' = t
    /\ UNCHANGED <<Address, eauth, pc, req, buildToken, resp, openBodies, bodyRead,
                   bodyEnded, v, vBefore, ret, arose, netIO>>

Build == \E m \in Methods, e \in Endpoints, b \in Bodies : newRequest(m, e, b)
SendFails == \E t \in Targets : doSendFails(t)
Send == \E t \in Targets, r \in Responses : doSend(t, r)
Assign == \E t \in Tokens : SetToken(t)

Next ==
    \/ Build
    \/ SendFails
    \/ Send
    \/ doFailure
    \/ doCopy
    \/ doDecode
    \/ doDiscard
    \/ Finish
    \/ Assign

Spec == Init /\ [][Next]_vars
(***************************************************************************)
(* Properties.                                                             *)
(***************************************************************************)
Is2xx(code) == 200 <= code /\ code <= 299

HasAuthHeader(r) == "X-Auth-Token" \in DOMAIN r.Header

\* do has returned after the transport handed it a response
Answered == pc = "returned" /\ resp # NoResp

\* C1: every request newRequest builds carries the X-Auth-Token header if and
\* only if Client.Token was non-empty when the request was built, and the
\* header's value is then that token.
C1_AuthHeaderIffToken ==
    req # NoReq =>
        /\ HasAuthHeader(req) <=> buildToken # ""
        /\ HasAuthHeader(req) => req.Header["X-Auth-Token"] = buildToken

C1_Witness ==
    /\ req # NoReq
    /\ buildToken = "abc123"
    /\ Token = ""
    /\ HasAuthHeader(req)
    /\ req.Header["X-Auth-Token"] = "abc123"

\* C2 as stated: a status in [200, 299] makes do return no error; any other
\* status makes do return a RequestError with the response's status code,
\* status text and body.
C2_Original ==
    Answered =>
        IF Is2xx(resp.StatusCode)
        THEN ret.err = NoErr
        ELSE ret.err = RequestError(resp.StatusCode, resp.Status, resp.Body)

\* C2 as amended: with a status in [200, 299] do returns no error, unless the
\* target is a typed one and decoding the body fails with an error other than
\* io.EOF, which do returns with a nil response; with any other status do
\* returns a RequestError with the response's status code and status text,
\* whose Body holds the bytes read before the body ended or reading failed.
C2_StatusClassification ==
    Answered =>
        IF Is2xx(resp.StatusCode)
        THEN \/ ret.err = NoErr
             \/ /\ vBefore.kind = "typed"
                /\ ret.err \in {SyntaxErr, ReadErr}
                /\ [at |-> "Decode", err |-> ret.err] \in arose
                /\ ret.resp = NoResp
        ELSE ret.err = RequestError(resp.StatusCode, resp.Status,
                            IF resp.failAt = NoFail THEN resp.Body
                            ELSE SubSeq(resp.Body, 1, resp.failAt))

C2_Witness ==
    /\ Answered
    /\ resp.StatusCode = 500
    /\ Len(resp.Body) = 2
    /\ resp.failAt = 1
    /\ ret.err.kind = "RequestError"
    /\ ret.err.Body = SubSeq(resp.Body, 1, 1)

\* C3: a response body is open only while do works on the response; it is
\* closed when do returns or panics, on every way out, and at most one is open.
C3_BodyClosedOnReturn ==
    /\ openBodies \in {0, 1}
    /\ openBodies = 1 <=> pc = "received"

C3_Witness ==
    /\ pc = "panicked"
    /\ resp # NoResp
    /\ openBodies = 0

\* C4: when do has received a response with a status outside [200, 299], the
\* decode target is as it was before the call and the response returned is nil.
C4_FailureLeavesTarget ==
    Answered /\ ~Is2xx(resp.StatusCode) =>
        /\ v = vBefore
        /\ ret.resp = NoResp

C4_Witness ==
    /\ Answered
    /\ resp.StatusCode = 199
    /\ resp.Body = <<"1">>
    /\ resp.failAt = NoFail
    /\ v.kind = "typed"
    /\ v = vBefore
    /\ ret.resp = NoResp

\* C5: a 2xx response with an empty body and a typed target: do returns the
\* response and no error, and the target is unmodified.
C5_EmptyBodyIsSuccess ==
    /\ Answered
    /\ Is2xx(resp.StatusCode)
    /\ resp.Body = <<>>
    /\ resp.failAt = NoFail
    /\ vBefore.kind = "typed"
    => /\ ret.err = NoErr
       /\ ret.resp = resp
       /\ v = vBefore

C5_Witness ==
    /\ Answered
    /\ resp.StatusCode = 200
    /\ resp.Body = <<>>
    /\ resp.failAt = NoFail
    /\ vBefore = [kind |-> "typed", val |-> 5]
    /\ v = vBefore
    /\ ret.err = NoErr

\* C6 as stated: after do returns from a 2xx response with an io.Writer as the
\* target, the writer has received exactly the bytes of the response body.
C6_Original ==
    Answered /\ Is2xx(resp.StatusCode) /\ vBefore.kind = "writer" =>
        v.sink = vBefore.sink \o resp.Body

\* C7 as stated: every error a call of newRequest or do meets is returned to
\* the caller, except a failure to read the body of a non-2xx response and the
\* io.EOF of decoding an empty body.
C7_Original ==
    pc \in {"built", "returned"} =>
        \A a \in arose :
            \/ a.at = "ioutil.ReadAll"
            \/ a.at = "Decode" /\ a.err = EOFErr
            \/ ret.err = a.err

\* C8 as stated: with a 2xx response and no target, every byte the body
\* delivers has been read and the body closed when do returns the response
\* with no error.
C8_Original ==
    Answered /\ Is2xx(resp.StatusCode) /\ vBefore.kind = "nil" =>
        /\ bodyRead = (IF resp.failAt = NoFail THEN Len(resp.Body) ELSE resp.failAt)
        /\ openBodies = 0
        /\ ret = [resp |-> resp, err |-> NoErr]

\* C8 as amended: with a 2xx response and no target, the body has been closed
\* without being read when do returns the response with no error.
C8_DiscardedBodyClosedUnread ==
    Answered /\ Is2xx(resp.StatusCode) /\ vBefore.kind = "nil" =>
        /\ bodyRead = 0
        /\ ~bodyEnded
        /\ openBodies = 0
        /\ ret = [resp |-> resp, err |-> NoErr]

C8_Witness ==
    /\ Answered
    /\ resp.StatusCode = 200
    /\ resp.Body = <<"1", " ">>
    /\ vBefore.kind = "nil"
    /\ bodyRead = 0
    /\ openBodies = 0

\* C9: a step of newRequest does not contact the transport, and when one of
\* its calls reports an error it returns a nil request with an error; the
\* transport is contacted only by do, with a request that was built.
C9_BuildErrorBeforeNetwork ==
    [][/\ pc = "idle" /\ pc' = "built" =>
            /\ netIO' = netIO
            /\ ~netIO'
            /\ openBodies' = openBodies
            /\ arose' # {} => req' = NoReq /\ ret'.err # NoErr
       /\ netIO' /\ ~netIO =>
            /\ pc = "built"
            /\ req # NoReq
            /\ ret.err = NoErr]_vars

C9_Witness ==
    /\ pc = "built"
    /\ req = NoReq
    /\ ret.err = UnsupportedTypeErr
    /\ ~netIO

\* C10: no step of newRequest or do changes Client.Token, Client.Address or
\* the credentials, and a token that is set is on every request then built.
C10_ClientFieldsKept ==
    [][/\ pc' # pc => UNCHANGED clientFields
       /\ pc = "idle" /\ pc' = "built" /\ req' # NoReq /\ Token # "" =>
            HasAuthHeader(req') /\ req'.Header["X-Auth-Token"] = Token]_vars

C10_Witness ==
    /\ pc = "returned"
    /\ ret.err.kind = "RequestError"
    /\ Token = "abc123"
    /\ HasAuthHeader(req)

====
